---------------------------- MODULE Spec2Model ----------------------------
(***************************************************************************)
(* The Intcode machine of src/src/machine.rs as a state machine.           *)
(*                                                                         *)
(* The machine's fields are the variables memory, ip, state, inputs,       *)
(* outputs and relative_base.  Every method of Machine is an operator over *)
(* a machine record that returns the machine it leaves behind together     *)
(* with what the call returned (Ok, Err or a panic); every caller-visible  *)
(* operation is one action that applies the operator to the variables.     *)
(* last, args and result record the most recent call, its arguments and    *)
(* its return value, and pre is the machine as it was when that call was   *)
(* made.  machines is the Vec<Machine> of a caller that owns several       *)
(* machines, and calls is the history of the calls made on each of them.   *)
(* simulator holds the rest of that caller's state: the stored packet of   *)
(* NetworkSimulator and the locals of its loop.                            *)
(***************************************************************************)
EXTENDS Integers, Sequences, FiniteSets, TLC

VARIABLES memory, ip, state, inputs, outputs, relative_base,
          last, args, result, pre, machines, calls, simulator

vars == <<memory, ip, state, inputs, outputs, relative_base,
          last, args, result, pre, machines, calls, simulator>>

---------------------------------------------------------------------------
(* Bounds of the model *)

\* highest address a write may touch (Vec growth is unbounded in the code)
MaxAddr == 6
\* longest input or output queue explored
MaxQueue == 2
\* most instructions one run_until_* call may execute before it returns
MaxSteps == 8
\* largest magnitude of a value stored in memory or in ip
MaxValue == 12000
\* largest magnitude of the relative base (reset keeps it, so it can grow
\* without limit over reloads)
MaxBase == 2

\* largest digit tried in each of the four places above the opcode of an
\* instruction word that is decoded on its own
MaxDigit == 3

\* machines a caller owns at once, and calls it makes on them in all
NetSize == 2
MaxCalls == 4

\* decimal digits kept of an exact sum or product of two 64-bit values
DecLen == 40

\* programs loaded by new, reset and execute
Programs ==
    { <<99>>,
      <<42>>,
      <<3, 0, 4, 0, 99>>,
      <<1002, 4, 3, 4, 33>>,
      <<109, 1, 204, 0, 99>>,
      <<104, 7, 99>>,
      <<1302, 0, 0, 0, 99>>,
      <<5005, 0, 0>>,
      <<1105, 1, 0>>,
      <<1101, 3, 4, 5>>,
      <<1105, 0, 3, 1106, 0, 6>>,
      <<1006, 0, 3, 99>>,
      <<1106, 0, 4, 42, 99>>,
      <<109, 1, 203, 1, 204, 1>>,
      <<104, 7, 104, 8, 99>>,
      <<3, 3, 104, 0, 1105, 1, 0>>,
      <<4, 3, 99>>,
      <<1107, 1, 2, 0, 1108, 2, 2>>,
      <<109, 2, 109, -1, 99>>,
      <<11101, 1, 1, 0>>,
      <<103, 0, 99>>,
      <<1101, 1, 1, -1>>,
      <<109, 1, 203, -2>> }

\* programs a live machine is reloaded with by reset
ResetPrograms ==
    { <<99>>,
      <<3, 0, 4, 0, 99>>,
      <<1101, 3, 4, 5>> }

\* programs run by execute
ExecutePrograms ==
    { <<3, 0, 4, 0, 99>>,
      <<109, 1, 204, 0, 99>> }

\* values the caller pushes onto the input queue
InputValues == {5, 6}

\* input sequences queued by execute
InputSeqs == { <<5>> }

\* addresses and values of the caller's direct writes
WriteAddrs == {-1, 0, MaxAddr}
WriteValues == {7}

\* addresses of the caller's direct reads
ReadAddrs == {-1, 0, MaxAddr}

---------------------------------------------------------------------------
(* Results of a call *)

OkUnit == [kind |-> "Ok", tag |-> "Unit", val |-> <<>>]
OkNone == [kind |-> "Ok", tag |-> "None", val |-> <<>>]
OkSome(v) == [kind |-> "Ok", tag |-> "Some", val |-> <<v>>]
Err(tag, val) == [kind |-> "Err", tag |-> tag, val |-> val]
Panic(tag, val) == [kind |-> "Panic", tag |-> tag, val |-> val]

InvalidInstruction(v) == Err("InvalidInstruction", <<v>>)
InvalidParameterMode(v) == Err("InvalidParameterMode", <<v>>)
EmptyInput == Err("EmptyInput", <<>>)
Stopped == Err("Stopped", <<>>)

\* a machine together with what the call on it returned
Outcome(m, res) == [m |-> m, res |-> res]

---------------------------------------------------------------------------
(* i64 arithmetic: / and % of Rust truncate toward zero *)

TruncDiv(a, b) == IF a >= 0 THEN a \div b ELSE -((-a) \div b)
\* a remainder that takes the sign of the divisor
TruncRem_floored(a, b) == a % b

TruncRem(a, b) == IF a >= 0 THEN a % b ELSE -((-a) % b)

---------------------------------------------------------------------------
(* Machine *)

new(program) ==
    [memory |-> program, ip |-> 0, state |-> "Running",
     inputs |-> <<>>, outputs |-> <<>>, relative_base |-> 0]

\* a read that takes the last cell for every address past the end
read_clamped(m, index) ==
    IF index >= 0 /\ m.memory # <<>>
    THEN m.memory[(IF index < Len(m.memory) THEN index ELSE Len(m.memory) - 1) + 1]
    ELSE 0

read(m, index) ==
    IF index >= 0 /\ index < Len(m.memory) THEN m.memory[index + 1] ELSE 0

\* a relative read that forgets the relative base
read_relative_without_base(m, index) == read(m, index)

read_relative(m, index) == read(m, m.relative_base + index)

\* Vec::resize(new_len, value): truncates, or appends copies of value
\* a resize that fills the whole vector, not only its new cells
resize_from_empty(mem, new_len, value) == [i \in 1..new_len |-> value]

resize(mem, new_len, value) ==
    IF new_len <= Len(mem) THEN SubSeq(mem, 1, new_len)
    ELSE mem \o [i \in 1..(new_len - Len(mem)) |-> value]

\* a write that stores only into cells that exist
write_within_length(m, index, value) ==
    IF index >= 0
    THEN Outcome(IF index < Len(m.memory)
                 THEN [m EXCEPT !.memory[index + 1] = value]
                 ELSE m,
                 OkUnit)
    ELSE Outcome(m, Panic("Tried to write to negative address", <<>>))

\* a write that lets a negative address pass as if nothing was asked
write_negative_ignored(m, index, value) ==
    IF index >= 0
    THEN LET grown == IF index >= Len(m.memory)
                      THEN resize(m.memory, index + 1, value)
                      ELSE m.memory
         IN Outcome([m EXCEPT !.memory = [grown EXCEPT ![index + 1] = value]],
                    OkUnit)
    ELSE Outcome(m, OkUnit)

write(m, index, value) ==
    IF index >= 0
    THEN LET grown == IF index >= Len(m.memory)
                      THEN resize(m.memory, index + 1, value)
                      ELSE m.memory
         IN Outcome([m EXCEPT !.memory = [grown EXCEPT ![index + 1] = value]],
                    OkUnit)
    ELSE Outcome(m, Panic("Tried to write to negative address", <<>>))

\* a relative write that forgets the relative base
write_relative_without_base(m, index, value) == write(m, index, value)

write_relative(m, index, value) == write(m, m.relative_base + index, value)

\* slice::copy_from_slice: both slices have the same length here, because
\* reset resizes first
copy_from_slice(mem, src) == [i \in 1..Len(mem) |-> src[i]]

\* a reload that overwrites in place and keeps what lies beyond the program
reset_in_place(m, program) ==
    LET longer == IF Len(m.memory) > Len(program) THEN Len(m.memory) ELSE Len(program)
    IN [m EXCEPT !.memory = [i \in 1..longer |->
                                IF i <= Len(program) THEN program[i] ELSE m.memory[i]],
                 !.ip = 0,
                 !.state = "Running",
                 !.inputs = <<>>,
                 !.outputs = <<>>]

reset(m, program) ==
    LET sized == resize(m.memory, Len(program), 0)
    IN [m EXCEPT !.memory = copy_from_slice(sized, program),
                 !.ip = 0,
                 !.state = "Running",
                 !.inputs = <<>>,
                 !.outputs = <<>>]

\* an input queue read from its newest end
read_input_newest_first(m) ==
    IF m.inputs # <<>>
    THEN [m |-> [m EXCEPT !.inputs = SubSeq(@, 1, Len(@) - 1)],
          res |-> OkSome(m.inputs[Len(m.inputs)])]
    ELSE [m |-> m, res |-> EmptyInput]

\* a read that takes the head and discards what was queued behind it
read_input_drops_rest(m) ==
    IF m.inputs = <<>> THEN Outcome(m, EmptyInput)
    ELSE Outcome([m EXCEPT !.inputs = <<>>], OkSome(Head(m.inputs)))

read_input(m) ==
    IF m.inputs # <<>>
    THEN [m |-> [m EXCEPT !.inputs = Tail(m.inputs)], res |-> OkSome(Head(m.inputs))]
    ELSE [m |-> m, res |-> EmptyInput]

\* an output that goes to the front of the queue
write_output_at_front(m, value) == [m EXCEPT !.outputs = <<value>> \o m.outputs]

write_output(m, value) == [m EXCEPT !.outputs = Append(m.outputs, value)]

---------------------------------------------------------------------------
(* Instruction decode *)

\* impl TryFrom<Value> for ParameterMode: the mode, or the error
ParameterMode_try_from(value) ==
    LET d == TruncRem(value, 10)
    IN CASE d = 0 -> [ok |-> TRUE, mode |-> "Position", err |-> OkUnit]
         [] d = 1 -> [ok |-> TRUE, mode |-> "Immediate", err |-> OkUnit]
         [] d = 2 -> [ok |-> TRUE, mode |-> "Relative", err |-> OkUnit]
         [] OTHER -> [ok |-> FALSE, mode |-> "", err |-> InvalidParameterMode(value)]

\* the mode digit of parameter n (1, 2, 3) of an instruction word
ModeDigit(value, n) ==
    LET place == CASE n = 1 -> 100 [] n = 2 -> 1000 [] OTHER -> 10000
    IN TruncRem(TruncDiv(value, place), 10)

\* a decode that reports the whole instruction word instead of the digit
DecodeModes_whole_word(value, n) ==
    LET tried == [k \in 1..n |-> ParameterMode_try_from(ModeDigit(value, k))]
    IN IF \A k \in 1..n : tried[k].ok
       THEN [ok |-> TRUE, modes |-> [k \in 1..n |-> tried[k].mode], err |-> OkUnit]
       ELSE [ok |-> FALSE, modes |-> <<>>, err |-> InvalidParameterMode(value)]

\* a decode that checks all three mode digits whatever the opcode
DecodeModes_all_places(value, n) ==
    LET tried == [k \in 1..3 |-> ParameterMode_try_from(ModeDigit(value, k))]
        bad == {k \in 1..3 : ~tried[k].ok}
    IN IF bad = {}
       THEN [ok |-> TRUE, modes |-> [k \in 1..n |-> tried[k].mode], err |-> OkUnit]
       ELSE [ok |-> FALSE, modes |-> <<>>,
             err |-> tried[CHOOSE k \in bad : \A j \in bad : k <= j].err]

\* the modes of the first n parameters, decoded left to right; the first
\* failure is the one `?` returns
DecodeModes(value, n) ==
    LET tried == [k \in 1..n |-> ParameterMode_try_from(ModeDigit(value, k))]
        bad == {k \in 1..n : ~tried[k].ok}
    IN IF bad = {}
       THEN [ok |-> TRUE, modes |-> [k \in 1..n |-> tried[k].mode], err |-> OkUnit]
       ELSE [ok |-> FALSE, modes |-> <<>>,
             err |-> tried[CHOOSE k \in bad : \A j \in bad : k <= j].err]

Decoded(shape, op, dm) ==
    [ok |-> dm.ok, shape |-> shape, op |-> op, modes |-> dm.modes, err |-> dm.err]

\* impl TryFrom<Value> for OpCode
OpCode_try_from(value) ==
    LET code == TruncRem(value, 100)
    IN CASE code \in {1, 2, 7, 8} ->
              Decoded("Trinary",
                      CASE code = 1 -> "Add" [] code = 2 -> "Mul"
                        [] code = 7 -> "LessThan" [] OTHER -> "Equals",
                      DecodeModes(value, 3))
         [] code \in {3, 4, 9} ->
              Decoded("Unary",
                      CASE code = 3 -> "Input" [] code = 4 -> "Output"
                        [] OTHER -> "AdjustRelativeBase",
                      DecodeModes(value, 1))
         [] code \in {5, 6} ->
              Decoded("Binary",
                      IF code = 5 THEN "JumpIfTrue" ELSE "JumpIfFalse",
                      DecodeModes(value, 2))
         [] code = 99 ->
              Decoded("Nonary", "Halt", DecodeModes(value, 0))
         [] OTHER ->
              [ok |-> FALSE, shape |-> "", op |-> "", modes |-> <<>>,
               err |-> InvalidInstruction(value)]

\* Machine::get_op before its expect: the decode of the word at ip
get_op(m) == OpCode_try_from(read(m, m.ip))

get_arg(m, offset, mode) ==
    LET value == read(m, m.ip + offset)
    IN CASE mode = "Position" -> [by |-> "Position", v |-> value]
         [] mode = "Immediate" -> [by |-> "Value", v |-> value]
         [] OTHER -> [by |-> "Relative", v |-> value]

ArgumentBy_read(arg, m) ==
    CASE arg.by = "Position" -> read(m, arg.v)
      [] arg.by = "Value" -> arg.v
      [] OTHER -> read_relative(m, arg.v)

\* a write that reports an immediate target as a decode error
ArgumentBy_write_reports_mode(arg, value, m) ==
    CASE arg.by = "Position" -> write(m, arg.v, value)
      [] arg.by = "Relative" -> write_relative(m, arg.v, value)
      [] OTHER -> Outcome(m, InvalidParameterMode(1))

ArgumentBy_write(arg, value, m) ==
    CASE arg.by = "Position" -> write(m, arg.v, value)
      [] arg.by = "Relative" -> write_relative(m, arg.v, value)
      [] OTHER -> Outcome(m, Panic("Trying to write into immediate value", <<>>))

---------------------------------------------------------------------------
(* Instruction execution.  An execute returns the machine, the result and
   the jump target: <<>> for None, <<target>> for Some(target). *)

Executed(m, res, jump) == [m |-> m, res |-> res, jump |-> jump]

\* a Halt that also drops the queued input
OpCode0_execute_drops_inputs(op, m) ==
    Executed([m EXCEPT !.state = "Stopped", !.inputs = <<>>], OkNone, <<>>)

OpCode0_execute(op, m) ==
    Executed([m EXCEPT !.state = "Stopped"], OkNone, <<>>)

\* an AdjustRelativeBase that replaces the base instead of adding to it
OpCode1_execute_sets_base(op, arg1, m) ==
    CASE op = "Input" ->
           LET got == read_input(m)
           IN IF got.res.kind # "Ok"
              THEN Executed(got.m, got.res, <<>>)
              ELSE LET w == ArgumentBy_write(arg1, got.res.val[1], got.m)
                   IN Executed(w.m, IF w.res.kind = "Ok" THEN OkNone ELSE w.res, <<>>)
      [] op = "Output" ->
           Executed(write_output(m, ArgumentBy_read(arg1, m)), OkNone, <<>>)
      [] OTHER ->
           Executed([m EXCEPT !.relative_base = ArgumentBy_read(arg1, m)],
                    OkNone, <<>>)

OpCode1_execute(op, arg1, m) ==
    CASE op = "Input" ->
           LET got == read_input(m)
           IN IF got.res.kind # "Ok"
              THEN Executed(got.m, got.res, <<>>)
              ELSE LET w == ArgumentBy_write(arg1, got.res.val[1], got.m)
                   IN Executed(w.m, IF w.res.kind = "Ok" THEN OkNone ELSE w.res, <<>>)
      [] op = "Output" ->
           Executed(write_output(m, ArgumentBy_read(arg1, m)), OkNone, <<>>)
      [] OTHER ->
           Executed([m EXCEPT !.relative_base = @ + ArgumentBy_read(arg1, m)],
                    OkNone, <<>>)

\* jumps that both test for a non-zero condition
OpCode2_execute_same_test(op, arg1, arg2, m) ==
    Executed(m, OkNone,
             IF ArgumentBy_read(arg1, m) # 0 THEN <<ArgumentBy_read(arg2, m)>> ELSE <<>>)

OpCode2_execute(op, arg1, arg2, m) ==
    LET condition == ArgumentBy_read(arg1, m)
        taken == IF op = "JumpIfTrue" THEN condition # 0 ELSE condition = 0
    IN Executed(m, OkNone, IF taken THEN <<ArgumentBy_read(arg2, m)>> ELSE <<>>)

OpCode3_execute(op, arg1, arg2, arg3, m) ==
    LET a == ArgumentBy_read(arg1, m)
        b == ArgumentBy_read(arg2, m)
        value == CASE op = "Add" -> a + b
                   [] op = "Mul" -> a * b
                   [] op = "LessThan" -> IF a < b THEN 1 ELSE 0
                   [] OTHER -> IF a = b THEN 1 ELSE 0
        w == ArgumentBy_write(arg3, value, m)
    IN Executed(w.m, IF w.res.kind = "Ok" THEN OkNone ELSE w.res, <<>>)

\* an ip that is advanced before the result of execute is looked at
SetIp_before_result(e, width) ==
    Outcome([e.m EXCEPT !.ip = IF e.jump # <<>> THEN e.jump[1] ELSE @ + width],
            IF e.res.kind = "Ok" THEN OkUnit ELSE e.res)

\* an ip that is advanced by the number of parameters only
SetIp_by_parameters(e, width) ==
    IF e.res.kind = "Ok"
    THEN Outcome([e.m EXCEPT !.ip = IF e.jump # <<>> THEN e.jump[1] ELSE @ + width - 1],
                 OkUnit)
    ELSE Outcome(e.m, e.res)

\* an ip that is advanced by the width of the word found at ip after the
\* instruction has written
SetIp_width_after_write(e, width) ==
    IF e.res.kind = "Ok"
    THEN LET code == TruncRem(read(e.m, e.m.ip), 100)
             now == CASE code \in {1, 2, 7, 8} -> 4
                      [] code \in {3, 4, 9} -> 2
                      [] code \in {5, 6} -> 3
                      [] OTHER -> 1
         IN Outcome([e.m EXCEPT !.ip = IF e.jump # <<>> THEN e.jump[1] ELSE @ + now],
                    OkUnit)
    ELSE Outcome(e.m, e.res)

\* self.ip = op.execute(..)?.unwrap_or(self.ip + width): an error or a panic
\* leaves ip alone and is what step returns
SetIp(e, width) ==
    IF e.res.kind = "Ok"
    THEN Outcome([e.m EXCEPT !.ip = IF e.jump # <<>> THEN e.jump[1] ELSE @ + width],
                 OkUnit)
    ELSE Outcome(e.m, e.res)

\* the match of step: decode the word at ip and execute it
dispatch(m) ==
    LET op == get_op(m)
    IN IF ~op.ok
       THEN \* expect("Invalid opcode") panics with the decode error
            Outcome(m, Panic(op.err.tag, op.err.val))
       ELSE CASE op.shape = "Nonary" ->
                   SetIp(OpCode0_execute(op.op, m), 1)
              [] op.shape = "Unary" ->
                   SetIp(OpCode1_execute(op.op, get_arg(m, 1, op.modes[1]), m), 2)
              [] op.shape = "Binary" ->
                   SetIp(OpCode2_execute(op.op, get_arg(m, 1, op.modes[1]),
                                         get_arg(m, 2, op.modes[2]), m), 3)
              [] OTHER ->
                   SetIp(OpCode3_execute(op.op, get_arg(m, 1, op.modes[1]),
                                         get_arg(m, 2, op.modes[2]),
                                         get_arg(m, 3, op.modes[3]), m), 4)

\* a step that decodes and executes whatever the state
step_without_state_check(m) == dispatch(m)

\* a step that moves past a word it cannot decode
step_skips_undecodable(m) ==
    IF m.state # "Running" THEN Outcome(m, Stopped)
    ELSE IF ~get_op(m).ok
    THEN Outcome([m EXCEPT !.ip = @ + 1], Panic(get_op(m).err.tag, get_op(m).err.val))
    ELSE dispatch(m)

step(m) ==
    IF m.state # "Running" THEN Outcome(m, Stopped)
    ELSE dispatch(m)

---------------------------------------------------------------------------
(* Run loops.  fuel counts the iterations left; a loop that has not
   returned when it runs out is reported as Diverged, and the action that
   made the call is then not enabled. *)

Diverged == [kind |-> "Diverged", tag |-> "", val |-> <<>>]

RECURSIVE run_until_stopped_loop(_, _)
run_until_stopped_loop(m, fuel) ==
    IF m.state # "Running" THEN Outcome(m, OkUnit)
    ELSE IF fuel = 0 THEN Outcome(m, Diverged)
    ELSE LET s == step(m)
         IN IF s.res.kind # "Ok" THEN s
            ELSE run_until_stopped_loop(s.m, fuel - 1)

\* a loop that steps before it tests the state
run_until_stopped_step_first(m) ==
    LET s == step(m)
    IN IF s.res.kind # "Ok" THEN s
       ELSE run_until_stopped_loop(s.m, MaxSteps - 1)

\* a loop that takes a machine blocked on input for a finished one
RECURSIVE ends_when_blocked_loop(_, _)
ends_when_blocked_loop(m, fuel) ==
    IF m.state # "Running" THEN Outcome(m, OkUnit)
    ELSE IF fuel = 0 THEN Outcome(m, Diverged)
    ELSE LET s == step(m)
         IN CASE s.res.kind = "Ok" -> ends_when_blocked_loop(s.m, fuel - 1)
              [] s.res = EmptyInput -> Outcome(s.m, OkUnit)
              [] OTHER -> s

run_until_stopped_ends_when_blocked(m) == ends_when_blocked_loop(m, MaxSteps)

\* a loop that gives up after its first instruction
run_until_stopped_one_step(m) ==
    IF m.state # "Running" THEN Outcome(m, OkUnit) ELSE step(m)

run_until_stopped(m) == run_until_stopped_loop(m, MaxSteps)

RECURSIVE run_until_output_loop(_, _)
run_until_output_loop(m, fuel) ==
    IF m.outputs # <<>>
    THEN Outcome([m EXCEPT !.outputs = Tail(@)], OkSome(Head(m.outputs)))
    ELSE IF fuel = 0 THEN Outcome(m, Diverged)
    ELSE LET s == step(m)
         IN IF s.res.kind # "Ok" THEN s
            ELSE run_until_output_loop(s.m, fuel - 1)

\* a loop that steps once before it looks at the output queue
run_until_output_steps_first(m) ==
    LET s == step(m)
    IN IF s.res.kind # "Ok" THEN s ELSE run_until_output_loop(s.m, MaxSteps - 1)

run_until_output(m) == run_until_output_loop(m, MaxSteps)

RECURSIVE run_until_input_loop(_, _)
run_until_input_loop(m, fuel) ==
    IF fuel = 0 THEN Outcome(m, Diverged)
    ELSE LET s == step(m)
         IN CASE s.res.kind = "Ok" -> run_until_input_loop(s.m, fuel - 1)
              [] s.res = EmptyInput -> Outcome(s.m, OkUnit)
              [] OTHER -> s

\* a loop that marks the machine Stopped when it suspends
run_until_input_stops_when_blocked(m) ==
    LET r == run_until_input_loop(m, MaxSteps)
    IN IF r.res = OkUnit THEN Outcome([r.m EXCEPT !.state = "Stopped"], OkUnit) ELSE r

\* a loop that returns success on every error of step
run_until_input_swallows_errors(m) ==
    LET r == run_until_input_loop(m, MaxSteps)
    IN IF r.res.kind = "Err" THEN Outcome(r.m, OkUnit) ELSE r

\* a loop that returns success when the program has halted
run_until_input_ok_on_halt(m) ==
    LET r == run_until_input_loop(m, MaxSteps)
    IN IF r.res = Stopped THEN Outcome(r.m, OkUnit) ELSE r

run_until_input(m) == run_until_input_loop(m, MaxSteps)

\* inputs.extend(values)
extend(m, values) == [m EXCEPT !.inputs = @ \o values]

\* SpringDroid::execute up to the return of run_until_stopped: reload the
\* program, queue the whole input, run to the halt
execute(m, program, values) ==
    run_until_stopped(extend(reset(m, program), values))

---------------------------------------------------------------------------
(* The state machine *)

\* the machine the variables hold
Self ==
    [memory |-> memory, ip |-> ip, state |-> state,
     inputs |-> inputs, outputs |-> outputs, relative_base |-> relative_base]

NoArgs == [program |-> <<>>, vals |-> <<>>]

Abs(v) == IF v >= 0 THEN v ELSE -v

\* the machines the model explores
InBounds(m) ==
    /\ Len(m.memory) <= MaxAddr + 1
    /\ Len(m.inputs) <= MaxQueue
    /\ Len(m.outputs) <= MaxQueue
    /\ Abs(m.ip) <= MaxValue
    /\ Abs(m.relative_base) <= MaxBase
    /\ \A i \in 1..Len(m.memory) : Abs(m.memory[i]) <= MaxValue

\* a panic ends the process; only a new machine can follow it
Alive == result.kind # "Panic"

\* the call `name` with arguments `a` returned out.res and left out.m
Returned(name, a, out) ==
    /\ out.res.kind # "Diverged"
    /\ memory' = out.m.memory
    /\ ip' = out.m.ip
    /\ state' = out.m.state
    /\ inputs' = out.m.inputs
    /\ outputs' = out.m.outputs
    /\ relative_base' = out.m.relative_base
    /\ last' = name
    /\ args' = a
    /\ result' = out.res
    /\ pre' = Self
    /\ UNCHANGED <<machines, calls, simulator>>

\* a call whose outcome is within the bounds of the model
Call(name, a, out) == InBounds(out.m) /\ Returned(name, a, out)

Init ==
    \E program \in Programs :
        /\ memory = program
        /\ ip = 0
        /\ state = "Running"
        /\ inputs = <<>>
        /\ outputs = <<>>
        /\ relative_base = 0
        /\ last = "new"
        /\ args = [program |-> program, vals |-> <<>>]
        /\ result = OkUnit
        /\ pre = new(program)
        /\ machines = <<>>
        /\ calls = <<>>
        /\ simulator = <<>>

\* the process starts again after a panic
New ==
    /\ ~Alive
    /\ \E program \in Programs :
           Call("new", [program |-> program, vals |-> <<>>],
                Outcome(new(program), OkUnit))

Reset ==
    /\ Alive
    /\ \E program \in ResetPrograms :
           Call("reset", [program |-> program, vals |-> <<>>],
                Outcome(reset(Self, program), OkUnit))

Write ==
    /\ Alive
    /\ \E index \in WriteAddrs, value \in WriteValues :
           Call("write", [program |-> <<>>, vals |-> <<index, value>>],
                write(Self, index, value))

Read ==
    /\ Alive
    /\ \E index \in ReadAddrs :
           Call("read", [program |-> <<>>, vals |-> <<index>>],
                Outcome(Self, OkSome(read(Self, index))))

PushInput ==
    /\ Alive
    /\ \E value \in InputValues :
           Call("push_input", [program |-> <<>>, vals |-> <<value>>],
                Outcome(extend(Self, <<value>>), OkUnit))

\* the caller takes everything the machine has produced: outputs.drain(..)
DrainOutputs ==
    /\ Alive
    /\ Call("drain_outputs", NoArgs, Outcome([Self EXCEPT !.outputs = <<>>], OkUnit))

Step == Alive /\ Call("step", NoArgs, step(Self))

RunUntilStopped == Alive /\ Call("run_until_stopped", NoArgs, run_until_stopped(Self))

RunUntilOutput == Alive /\ Call("run_until_output", NoArgs, run_until_output(Self))

RunUntilInput == Alive /\ Call("run_until_input", NoArgs, run_until_input(Self))

Execute ==
    /\ Alive
    /\ \E program \in ExecutePrograms, values \in InputSeqs :
           Call("execute", [program |-> program, vals |-> values],
                execute(Self, program, values))

Next ==
    \/ New
    \/ Reset
    \/ Write
    \/ Read
    \/ PushInput
    \/ DrainOutputs
    \/ Step
    \/ RunUntilStopped
    \/ RunUntilOutput
    \/ RunUntilInput
    \/ Execute

Spec == Init /\ [][Next]_vars

---------------------------------------------------------------------------
(* Properties *)

\* step and the three run loops built on it
RunOps == {"step", "run_until_stopped", "run_until_output", "run_until_input"}

\* the opcodes decode recognizes
Opcodes == {1, 2, 3, 4, 5, 6, 7, 8, 9, 99}

\* how many mode digits decode consumes for a recognized opcode
Arity(code) ==
    CASE code \in {1, 2, 7, 8} -> 3
      [] code \in {5, 6} -> 2
      [] code \in {3, 4, 9} -> 1
      [] OTHER -> 0

\* the consumed mode digits of a word that are outside {0, 1, 2}
BadDigits(word) ==
    {k \in 1..Arity(TruncRem(word, 100)) : ModeDigit(word, k) \notin {0, 1, 2}}

\* the last call was a step or a run loop that ended in a failed step; the
\* failed step left ip on the word it could not execute
FailedAtIp == last \in RunOps /\ state = "Running" /\ result.kind # "Ok"

\* C1: after any sequence of operations, reset(P) leaves the machine in
\* exactly the state new(P) produces.
C1_ResetEqualsNew ==
    last = "reset" => Self = new(args.program)

\* C2: reset(P), queue I, run_until_stopped done twice in a row on the same
\* machine gives the same output sequence and the same result both times.
C2_RepeatedExecuteSameOutputs ==
    [][(last = "execute" /\ last' = "execute" /\ args' = args)
         => (outputs' = outputs /\ result' = result)]_vars

\* C3: after reset(P) the memory has exactly len(P) cells: read(a) = P[a]
\* below len(P) and 0 at and past it, whatever the memory was before.
C3_ResetResizesMemory ==
    last = "reset" =>
        /\ Len(memory) = Len(args.program)
        /\ \A a \in 0..(MaxAddr + 1) :
               read(Self, a) = IF a < Len(args.program) THEN args.program[a + 1] ELSE 0

\* a reset onto a shorter program of a memory whose last cell was not 0
C3_Witness ==
    /\ last = "reset"
    /\ Len(pre.memory) > Len(args.program)
    /\ pre.memory[Len(pre.memory)] # 0

\* C4: after write(A, v) at or past the old length L, every address from L
\* up to A - 1 reads 0 and address A reads v.
C4_GrowthZeroFills ==
    (last = "write" /\ result = OkUnit /\ args.vals[1] >= Len(pre.memory)) =>
        /\ \A a \in Len(pre.memory)..(args.vals[1] - 1) : read(Self, a) = 0
        /\ read(Self, args.vals[1]) = args.vals[2]

\* C5: run_until_output returns Ok(None) when the machine executes Halt
\* while the output queue is empty.
C5_HaltWithoutOutputIsNone ==
    (last = "run_until_output" /\ pre.state = "Running" /\ state = "Stopped")
        => result = OkNone

\* C6: every run operation called on a Stopped machine returns the Stopped
\* error, whatever the queues hold.
C6_RunOnStoppedFails ==
    (last \in RunOps /\ pre.state = "Stopped") => result = Stopped

\* C6 as amended: on a Stopped machine step and run_until_input return the
\* Stopped error, run_until_output returns it only when the output queue is
\* empty and otherwise pops the oldest output, and run_until_stopped returns
\* success; none of them executes an instruction.
C6_RunOnStopped ==
    (last \in RunOps /\ pre.state = "Stopped") =>
        CASE last = "run_until_stopped" -> result = OkUnit /\ Self = pre
          [] last = "run_until_output" /\ pre.outputs # <<>> ->
               /\ result = OkSome(Head(pre.outputs))
               /\ Self = [pre EXCEPT !.outputs = Tail(@)]
          [] OTHER -> result = Stopped /\ Self = pre

\* run_until_stopped was called on a machine that had already halted
C6_Witness ==
    last = "run_until_stopped" /\ pre.state = "Stopped" /\ pre.outputs # <<>>

\* C7: a word at ip whose opcode is not recognized makes step and the run
\* loops return Err(InvalidInstruction(word)) to the caller.
C7_InvalidOpcodeIsReturned ==
    (FailedAtIp /\ TruncRem(read(Self, ip), 100) \notin Opcodes)
        => result = InvalidInstruction(read(Self, ip))

HaltStep ==
    last = "step" /\ pre.state = "Running" /\ TruncRem(read(pre, pre.ip), 100) = 99

\* C9: a step that executes Halt sets state = Stopped and leaves memory, ip,
\* the relative base and both queues as they were.
C9_HaltChangesOnlyState ==
    HaltStep => Self = [pre EXCEPT !.state = "Stopped"]

\* C9 as amended: the step also advances ip by 1, the width of Halt.
C9_HaltAdvancesIp ==
    HaltStep => /\ result = OkUnit
                /\ Self = [pre EXCEPT !.state = "Stopped", !.ip = @ + 1]

\* a step executed Halt with a value waiting in the input queue
C9_Witness ==
    HaltStep /\ state = "Stopped" /\ inputs # <<>>

\* C10: step on a machine that is not Running fails with Stopped and changes
\* nothing.
C10_StepOnStopped ==
    (last = "step" /\ pre.state # "Running") => (result = Stopped /\ Self = pre)

\* step was called on a halted machine
C10_Witness ==
    last = "step" /\ pre.state = "Stopped" /\ result = Stopped

---------------------------------------------------------------------------
(* Properties of execution *)

\* the decode of the word the machine was on when the last call was made
PreOp == get_op(pre)

\* the last call was a step that decoded the instruction `name`
StepDecoded(name) ==
    last = "step" /\ pre.state = "Running" /\ PreOp.ok /\ PreOp.op = name

\* the machine is on an Input instruction with nothing to read
BlockedAtInput(m) ==
    m.inputs = <<>> /\ get_op(m).ok /\ get_op(m).op = "Input"

\* the address a position or relative argument names in machine m
Target(arg, m) == IF arg.by = "Relative" THEN m.relative_base + arg.v ELSE arg.v

\* the argument can be written: not immediate, not a negative address
Writable(arg, m) == arg.by # "Value" /\ Target(arg, m) >= 0

\* C11: the state goes from Running to Stopped only in a step that executes
\* Halt, a Stopped machine stays Stopped under step, the run loops, read,
\* write and queue pushes, and only a reset makes it Running again.
C11_StoppedOnlyByHaltUntilReset ==
    /\ (pre.state = "Running" /\ state = "Stopped")
           => last \in RunOps \cup {"execute"}
    /\ (state = "Stopped" /\ (pre.state = "Running" \/ last = "execute"))
           => TruncRem(read(Self, ip - 1), 100) = 99
    /\ (pre.state = "Stopped" /\ last \notin {"reset", "execute", "new"})
           => state = "Stopped"
    /\ last = "reset" => state = "Running"

\* a run loop returned on a machine that had halted before the call
C11_Witness ==
    last = "run_until_input" /\ pre.state = "Stopped" /\ state = "Stopped"

\* the caller calling step until the state is Stopped or a step fails
RECURSIVE StepUntilStopped(_, _)
StepUntilStopped(m, fuel) ==
    IF m.state = "Stopped" THEN Outcome(m, OkUnit)
    ELSE IF fuel = 0 THEN Outcome(m, Diverged)
    ELSE LET s == step(m)
         IN IF s.res.kind = "Ok" THEN StepUntilStopped(s.m, fuel - 1) ELSE s

\* C12: run_until_stopped ends with the memory, registers, queues, state
\* and result that calling step until Stopped ends with.
C12_RunEqualsRepeatedStep ==
    last = "run_until_stopped"
        => Outcome(Self, result) = StepUntilStopped(pre, MaxSteps)

\* run_until_stopped ran a freshly loaded program with input queued through
\* several instructions to its Halt
C12_Witness ==
    /\ last = "run_until_stopped"
    /\ pre.ip = 0 /\ pre.memory \in Programs /\ pre.inputs # <<>>
    /\ state = "Stopped" /\ ip > 2

\* C13: run_until_stopped returns EmptyInput when it reaches an Input
\* instruction with an empty input queue, and leaves the machine Running
\* on that instruction.
C13_RunPropagatesEmptyInput ==
    last = "run_until_stopped" =>
        /\ (pre.state = "Running" /\ BlockedAtInput(pre))
               => (result = EmptyInput /\ Self = pre)
        /\ result = EmptyInput => (state = "Running" /\ BlockedAtInput(Self))
        /\ (state = "Running" /\ BlockedAtInput(Self) /\ result.kind # "Panic")
               => result = EmptyInput

\* run_until_stopped executed at least one instruction and then blocked
C13_Witness ==
    last = "run_until_stopped" /\ result = EmptyInput /\ ip # pre.ip

PreArg(k) == get_arg(pre, k, PreOp.modes[k])

\* the mode-aware read of parameter k as the last step saw it
Rd(k) == ArgumentBy_read(PreArg(k), pre)

\* what Add, Mul, LessThan and Equals compute
Arith(op, a, b) ==
    CASE op = "Add" -> a + b
      [] op = "Mul" -> a * b
      [] op = "LessThan" -> IF a < b THEN 1 ELSE 0
      [] OTHER -> IF a = b THEN 1 ELSE 0

\* the last call was a step that executed an Add, Mul, LessThan or Equals
ArithStep ==
    /\ last = "step" /\ pre.state = "Running"
    /\ PreOp.ok /\ PreOp.shape = "Trinary" /\ result = OkUnit

\* C16: a step executing Add, Mul, LessThan or Equals writes the sum, the
\* product or the comparison of rd(p1) and rd(p2) to parameter 3 and
\* changes no other memory cell.
C16_ArithmeticWritesOnlyTarget ==
    ArithStep =>
        LET target == Target(PreArg(3), pre)
        IN /\ read(Self, target) = Arith(PreOp.op, Rd(1), Rd(2))
           /\ \A a \in 0..(MaxAddr + 1) :
                  a # target => read(Self, a) = read(pre, a)

\* C17: JumpIfTrue sets ip to rd(p2) when rd(p1) # 0 and JumpIfFalse when
\* rd(p1) = 0; otherwise ip advances by 3; nothing else changes.
C17_JumpsSetOnlyIp ==
    (last = "step" /\ pre.state = "Running" /\ PreOp.ok /\ PreOp.shape = "Binary") =>
        LET taken == IF PreOp.op = "JumpIfTrue" THEN Rd(1) # 0 ELSE Rd(1) = 0
        IN /\ result = OkUnit
           /\ Self = [pre EXCEPT !.ip = IF taken THEN Rd(2) ELSE @ + 3]

\* a JumpIfFalse was taken
C17_Witness ==
    StepDecoded("JumpIfFalse") /\ Rd(1) = 0 /\ ip = Rd(2) /\ ip # pre.ip + 3

\* s ends with t
IsSuffix(t, s) ==
    Len(t) <= Len(s) /\ t = SubSeq(s, Len(s) - Len(t) + 1, Len(s))

\* s begins with t
IsPrefix(t, s) ==
    Len(t) <= Len(s) /\ t = SubSeq(s, 1, Len(t))

\* the program that copies every input to the output, for ever: it stores
\* the input in the immediate parameter of its Output
EchoLoop == <<3, 3, 104, 0, 1105, 1, 0>>

\* machine m is at the start of the echo program
AtEchoLoop(m) ==
    /\ m.ip = 0 /\ m.state = "Running" /\ Len(m.memory) = Len(EchoLoop)
    /\ \A i \in 1..Len(EchoLoop) : i # 4 => m.memory[i] = EchoLoop[i]

\* C18: the queues are FIFO: a push appends to the input queue, an Input
\* takes its head, an Output appends to the output queue, so the k-th Input
\* gets the k-th pushed value and outputs appear in execution order.
C18_QueuesAreFifo ==
    /\ last = "push_input" => inputs = Append(pre.inputs, args.vals[1])
    /\ (StepDecoded("Input") /\ result = OkUnit) =>
           /\ inputs = Tail(pre.inputs)
           /\ read(Self, Target(PreArg(1), pre)) = Head(pre.inputs)
    /\ StepDecoded("Output") =>
           /\ outputs = Append(pre.outputs, Rd(1))
           /\ inputs = pre.inputs
    /\ last \in {"run_until_stopped", "run_until_input"} =>
           /\ IsSuffix(inputs, pre.inputs)
           /\ IsPrefix(pre.outputs, outputs)
    /\ (last = "run_until_input" /\ result = OkUnit /\ AtEchoLoop(pre)) =>
           outputs = pre.outputs \o pre.inputs

\* the echo program ran on two different queued values and produced them
\* in the order they were pushed
C18_Witness ==
    /\ last = "run_until_input" /\ result = OkUnit
    /\ AtEchoLoop(pre)
    /\ pre.inputs = <<5, 6>> /\ pre.outputs = <<>>
    /\ outputs = <<5, 6>>

\* a relative argument rewritten as the position argument base + offset
AsPosition(arg, m) ==
    IF arg.by = "Relative"
    THEN [by |-> "Position", v |-> m.relative_base + arg.v]
    ELSE arg

\* the outcome of the instruction machine m is on, executed with its
\* relative arguments rewritten as position arguments
StepAsPosition(m) ==
    LET op == get_op(m)
        arg(k) == AsPosition(get_arg(m, k, op.modes[k]), m)
    IN CASE op.shape = "Unary" -> SetIp(OpCode1_execute(op.op, arg(1), m), 2)
         [] op.shape = "Binary" -> SetIp(OpCode2_execute(op.op, arg(1), arg(2), m), 3)
         [] OTHER -> SetIp(OpCode3_execute(op.op, arg(1), arg(2), arg(3), m), 4)

\* the last call was a step that decoded a relative-mode parameter
RelativeStep ==
    /\ last = "step" /\ pre.state = "Running" /\ PreOp.ok
    /\ \E k \in 1..Len(PreOp.modes) : PreOp.modes[k] = "Relative"

\* C19: a relative-mode parameter O reads the same value and writes the
\* same cell as a position-mode parameter relative_base + O.
C19_RelativeIsPositionPlusBase ==
    RelativeStep => Outcome(Self, result) = StepAsPosition(pre)

\* an Input stored through a relative parameter with a non-zero base
C19_Witness ==
    /\ StepDecoded("Input") /\ PreOp.modes[1] = "Relative"
    /\ pre.relative_base # 0 /\ result = OkUnit

\* C20: write(A, v) followed by read(A) gives v for every A >= 0, inside or
\* beyond the memory, for the caller's write and for position-mode writes
\* of instructions.
C20_WriteThenReadRoundTrip ==
    /\ (last = "write" /\ result = OkUnit)
           => read(Self, args.vals[1]) = args.vals[2]
    /\ (ArithStep /\ PreOp.modes[3] = "Position")
           => read(Self, PreArg(3).v) = Arith(PreOp.op, Rd(1), Rd(2))
    /\ (StepDecoded("Input") /\ PreOp.modes[1] = "Position" /\ result = OkUnit)
           => read(Self, PreArg(1).v) = Head(pre.inputs)

\* the caller wrote beyond the end of the memory, leaving a gap
C20_Witness ==
    last = "write" /\ result = OkUnit /\ args.vals[1] > Len(pre.memory)

---------------------------------------------------------------------------
(* Properties of memory and registers *)

\* C21: a read at or past the memory length returns 0, and a read changes
\* neither the contents nor the length of the memory.
C21_ReadPastEndIsZero ==
    /\ last = "read" =>
           LET a == args.vals[1]
           IN /\ Self = pre
              /\ a >= Len(memory) => result = OkSome(0)
              /\ (a >= 0 /\ a < Len(memory)) => result = OkSome(memory[a + 1])
    /\ (StepDecoded("Output") /\ PreArg(1).by = "Position"
          /\ PreArg(1).v >= Len(pre.memory)) =>
           /\ outputs = Append(pre.outputs, 0)
           /\ memory = pre.memory

\* the caller read past the end of a memory whose last cell is not 0
C21_Witness ==
    /\ last = "read" /\ args.vals[1] >= Len(memory)
    /\ memory # <<>> /\ memory[Len(memory)] # 0

\* the instructions that neither jump nor halt, with their width in words
InstructionWidth ==
    [Add |-> 4, Mul |-> 4, Input |-> 2, Output |-> 2,
     LessThan |-> 4, Equals |-> 4, AdjustRelativeBase |-> 2]

\* C22: after a successful step that executes Add, Mul, Input, Output,
\* LessThan, Equals or AdjustRelativeBase, ip is its old value plus
\* 1 + arity: 4, 4, 2, 2, 4, 4, 2.
C22_IpAdvancesByWidth ==
    (last = "step" /\ pre.state = "Running" /\ PreOp.ok /\ result = OkUnit
       /\ PreOp.op \in DOMAIN InstructionWidth)
        => ip = pre.ip + InstructionWidth[PreOp.op]

\* a step executed an Equals that does not start at address 0
C22_Witness ==
    StepDecoded("Equals") /\ result = OkUnit /\ pre.ip > 0 /\ ip = pre.ip + 4

\* C23: a step that executes AdjustRelativeBase adds rd(p1) to the relative
\* base; a step that executes any other opcode, a failed step, and a reset,
\* read, write or queue operation of the caller leave it unchanged.
C23_OnlyAdjustChangesBase ==
    /\ last = "step" =>
           relative_base = IF StepDecoded("AdjustRelativeBase")
                           THEN pre.relative_base + Rd(1)
                           ELSE pre.relative_base
    /\ last \in {"reset", "read", "write", "push_input", "drain_outputs"}
           => relative_base = pre.relative_base

\* a step lowered a relative base that was not 0
C23_Witness ==
    /\ StepDecoded("AdjustRelativeBase")
    /\ pre.relative_base # 0 /\ Rd(1) < 0
    /\ relative_base = pre.relative_base + Rd(1)

---------------------------------------------------------------------------
(* Fatal conditions *)

\* the last call was a step on an instruction whose write parameter
\* (parameter 3 of Add, Mul, LessThan, Equals; parameter 1 of Input) is in
\* immediate mode
ImmediateTargetStep ==
    /\ last = "step" /\ pre.state = "Running" /\ PreOp.ok
    /\ \/ PreOp.shape = "Trinary" /\ PreOp.modes[3] = "Immediate"
       \/ PreOp.op = "Input" /\ PreOp.modes[1] = "Immediate"

\* C24: executing an instruction whose write parameter is in immediate mode
\* aborts: it never returns one of the four error kinds and never writes
\* to memory.
C24_ImmediateTargetIsFatal ==
    ImmediateTargetStep => (result.kind = "Panic" /\ memory = pre.memory)

\* C24 as amended: the instruction aborts when it reaches the write, without
\* writing to memory: Add, Mul, LessThan and Equals always, Input after it
\* has taken a value from the queue; an Input that finds the queue empty
\* returns EmptyInput first and changes nothing.
C24_ImmediateWriteIsFatal ==
    ImmediateTargetStep =>
        IF PreOp.op = "Input" /\ pre.inputs = <<>>
        THEN result = EmptyInput /\ Self = pre
        ELSE /\ result = Panic("Trying to write into immediate value", <<>>)
             /\ memory = pre.memory
             /\ Self = IF PreOp.op = "Input"
                       THEN [pre EXCEPT !.inputs = Tail(@)]
                       ELSE pre

\* an Input with an immediate target took a value and aborted
C24_Witness ==
    /\ ImmediateTargetStep /\ PreOp.op = "Input"
    /\ pre.inputs # <<>> /\ result.kind = "Panic"

\* the abort of a write at a negative address
NegativeWrite == Panic("Tried to write to negative address", <<>>)

\* C25: a write at a negative address, by the caller's write, by a negative
\* position-mode write parameter or by a relative-mode write parameter with
\* base + offset < 0, aborts without modifying memory and is not one of the
\* four error kinds.
C25_NegativeWriteIsFatal ==
    /\ (last = "write" /\ args.vals[1] < 0)
           => (result = NegativeWrite /\ Self = pre)
    /\ (last = "step" /\ pre.state = "Running" /\ PreOp.ok
          /\ PreOp.shape = "Trinary" /\ PreOp.modes[3] # "Immediate"
          /\ Target(PreArg(3), pre) < 0)
           => (result = NegativeWrite /\ Self = pre)
    /\ (StepDecoded("Input") /\ PreOp.modes[1] # "Immediate"
          /\ pre.inputs # <<>> /\ Target(PreArg(1), pre) < 0)
           => (result = NegativeWrite /\ memory = pre.memory)

\* an Input aborted on a relative target below address 0 with a base above 0
C25_Witness ==
    /\ StepDecoded("Input") /\ PreOp.modes[1] = "Relative"
    /\ pre.relative_base > 0 /\ pre.inputs # <<>>
    /\ Target(PreArg(1), pre) < 0 /\ result = NegativeWrite

\* the result is the failure of a decode
DecodeFailure ==
    result.kind # "Ok" /\ result.tag \in {"InvalidInstruction", "InvalidParameterMode"}

\* C30: a step whose decode fails leaves memory, ip, the relative base, both
\* queues and the Running state as they were when the step began.
C30_FailedDecodeChangesNothing ==
    /\ (last = "step" /\ pre.state = "Running" /\ ~PreOp.ok)
           => (Self = pre /\ state = "Running" /\ DecodeFailure)
    /\ (last \in RunOps \cup {"execute"} /\ DecodeFailure)
           => (state = "Running" /\ step(Self) = Outcome(Self, result))

\* a step failed to decode after earlier steps had changed the memory
C30_Witness ==
    /\ last = "step" /\ pre.state = "Running" /\ ~PreOp.ok
    /\ pre.ip > 0 /\ pre.memory \notin Programs

---------------------------------------------------------------------------
(* The first example of day 9: a program that outputs itself.  The machine
   is loaded with it and then only stepped or run to its Halt; the memory
   grows to 102 cells and the relative base to 16, so the calls are not
   held to the bounds of the other programs, and the while loop of
   run_until_stopped is followed one iteration at a time: result is Pending
   from the call to its return. *)

Quine ==
    <<109, 1, 204, -1, 1001, 100, 1, 100, 1008, 100, 16, 101, 1006, 101, 0, 99>>

QuineInit ==
    /\ memory = Quine
    /\ ip = 0
    /\ state = "Running"
    /\ inputs = <<>>
    /\ outputs = <<>>
    /\ relative_base = 0
    /\ last = "new"
    /\ args = [program |-> Quine, vals |-> <<>>]
    /\ result = OkUnit
    /\ pre = new(Quine)
    /\ machines = <<>>
    /\ calls = <<>>
    /\ simulator = <<>>

Pending == [kind |-> "Pending", tag |-> "", val |-> <<>>]

QuineStep == result # Pending /\ Returned("step", NoArgs, step(Self))

\* run_until_stopped is called
QuineRunUntilStopped ==
    result # Pending /\ Returned("run_until_stopped", NoArgs, Outcome(Self, Pending))

\* one turn of `while self.state == State::Running { self.step()?; }`, or
\* the return that ends it
QuineRunIteration ==
    /\ result = Pending
    /\ LET s == IF state = "Running" THEN step(Self) ELSE Outcome(Self, OkUnit)
       IN /\ memory' = s.m.memory
          /\ ip' = s.m.ip
          /\ state' = s.m.state
          /\ inputs' = s.m.inputs
          /\ outputs' = s.m.outputs
          /\ relative_base' = s.m.relative_base
          /\ result' = IF state = "Running" /\ s.res.kind = "Ok" THEN Pending ELSE s.res
    /\ UNCHANGED <<last, args, pre, machines, calls, simulator>>

QuineNext == QuineStep \/ QuineRunUntilStopped \/ QuineRunIteration

SpecQuine == QuineInit /\ [][QuineNext]_vars

\* C26: the quine run to its Halt with no input outputs exactly its own 16
\* words in order and then stops.
C26_QuineOutputsItself ==
    /\ IsPrefix(outputs, Quine)
    /\ state = "Stopped" => outputs = Quine
    /\ last = "run_until_stopped" =>
           /\ result \in {Pending, OkUnit}
           /\ result = OkUnit => (state = "Stopped" /\ outputs = Quine)

\* run_until_stopped ran the freshly loaded quine to its Halt
C26_Witness ==
    /\ last = "run_until_stopped" /\ pre = new(Quine) /\ result = OkUnit
    /\ state = "Stopped" /\ outputs = Quine /\ Len(outputs) = 16

---------------------------------------------------------------------------
(* Decode of single instruction words.  The machine is loaded with one
   instruction word followed by three parameters equal to 1 and stepped
   once; the word runs over every opcode below and every digit up to
   MaxDigit in the hundreds, thousands, ten-thousands and hundred-thousands
   places. *)

\* the two low digits tried: the ten opcodes and three that are none
DecodeCodes == {1, 2, 3, 4, 5, 6, 7, 8, 9, 99, 0, 10, 42}

DecodeWords ==
    { d4 * 100000 + d3 * 10000 + d2 * 1000 + d1 * 100 + code :
        d1 \in 0..MaxDigit, d2 \in 0..MaxDigit, d3 \in 0..MaxDigit,
        d4 \in 0..MaxDigit, code \in DecodeCodes }

\* the same words below zero
NegativeWords == {-word : word \in DecodeWords \ {0}}

DecodeInit ==
    \E word \in DecodeWords \cup NegativeWords :
        /\ memory = <<word, 1, 1, 1>>
        /\ ip = 0
        /\ state = "Running"
        /\ inputs = <<>>
        /\ outputs = <<>>
        /\ relative_base = 0
        /\ last = "new"
        /\ args = [program |-> <<word, 1, 1, 1>>, vals |-> <<>>]
        /\ result = OkUnit
        /\ pre = new(<<word, 1, 1, 1>>)
        /\ machines = <<>>
        /\ calls = <<>>
        /\ simulator = <<>>

\* the first step of the freshly loaded machine: it decodes the word
DecodeStep == last = "new" /\ Returned("step", NoArgs, step(Self))

DecodeNext == DecodeStep

SpecDecode == DecodeInit /\ [][DecodeNext]_vars

\* the decimal digit of a non-negative word that holds the mode of
\* parameter k
PlaceDigit(word, k) ==
    (word \div (CASE k = 1 -> 100 [] k = 2 -> 1000 [] OTHER -> 10000)) % 10

\* C29: decode looks at as many mode digits as the opcode has parameters:
\* the hundreds digit for 3, 4, 9, the hundreds and thousands digits for 5
\* and 6, none for Halt, three for 1, 2, 7, 8; a digit in any other place,
\* the hundred-thousands included, never fails the decode.
C29_DecodeConsumesArityDigits ==
    (last = "step" /\ pre.ip = 0 /\ pre.memory # <<>> /\ pre.memory[1] >= 0) =>
        LET word == pre.memory[1]
            code == word % 100
        IN DecodeFailure <=>
               \/ code \notin Opcodes
               \/ \E k \in 1..Arity(code) : PlaceDigit(word, k) \notin {0, 1, 2}

\* an Output decoded although its thousands, ten-thousands and
\* hundred-thousands digits are no modes
C29_Witness ==
    /\ last = "step" /\ pre.ip = 0 /\ ~DecodeFailure
    /\ pre.memory[1] = 333104
    /\ outputs = <<1>>

---------------------------------------------------------------------------
(* Several machines owned by one caller, as in NetworkSimulator of day 23:
   machines is its Vec<Machine>.  The caller advances one machine at a time,
   in any order; calls[i] is the sequence of calls it has made on machine i.
   No value is carried from one machine to another. *)

\* the program every machine of the network is loaded with
NetProgram == <<3, 3, 104, 0, 1105, 1, 0>>

\* NetworkSimulator::new for one address: load, queue the address, run to
\* the first wait for input
NetMachine(i) == run_until_input(extend(new(NetProgram), <<i - 1>>)).m

NetOps == {"step", "run_until_input", "push_idle"}

\* a call on one machine; push_idle is the push of process_machine:
\* if machine.inputs.is_empty() { machine.inputs.push_back(-1) }
NetApply(op, m) ==
    CASE op = "step" -> step(m)
      [] op = "run_until_input" -> run_until_input(m)
      [] OTHER -> Outcome(IF m.inputs = <<>> THEN extend(m, <<-1>>) ELSE m, OkUnit)

\* a Vec<Machine> in which every machine reads one and the same input queue
Advance_shared_inputs(ms, i, out) ==
    [k \in DOMAIN ms |-> IF k = i THEN out.m
                         ELSE [ms[k] EXCEPT !.inputs = out.m.inputs]]

\* the Vec<Machine> after a call on &mut machines[i] has left out.m there
Advance(ms, i, out) == [ms EXCEPT ![i] = out.m]

RECURSIVE CallsMade(_)
CallsMade(i) == IF i = 0 THEN 0 ELSE Len(calls[i]) + CallsMade(i - 1)

NetInit ==
    /\ machines = [i \in 1..NetSize |-> NetMachine(i)]
    /\ calls = [i \in 1..NetSize |-> <<>>]
    /\ simulator = <<>>
    /\ memory = NetProgram
    /\ ip = 0
    /\ state = "Running"
    /\ inputs = <<>>
    /\ outputs = <<>>
    /\ relative_base = 0
    /\ last = "new"
    /\ args = [program |-> NetProgram, vals |-> <<>>]
    /\ result = OkUnit
    /\ pre = new(NetProgram)

\* the caller makes the call op on machine i
NetCall(i, op) ==
    LET out == NetApply(op, machines[i])
    IN /\ CallsMade(NetSize) < MaxCalls
       /\ out.res.kind # "Diverged"
       /\ machines' = Advance(machines, i, out)
       /\ calls' = [calls EXCEPT ![i] = Append(@, op)]
       /\ last' = op
       /\ args' = [program |-> <<>>, vals |-> <<i>>]
       /\ result' = out.res
       /\ pre' = machines[i]
       /\ UNCHANGED <<memory, ip, state, inputs, outputs, relative_base, simulator>>

NetStep == \E i \in 1..NetSize : NetCall(i, "step")

NetRunUntilInput == \E i \in 1..NetSize : NetCall(i, "run_until_input")

NetPushIdle == \E i \in 1..NetSize : NetCall(i, "push_idle")

NetNext == NetStep \/ NetRunUntilInput \/ NetPushIdle

SpecNet == NetInit /\ [][NetNext]_vars

\* machine m after the calls of seq, made on it alone
RECURSIVE Alone(_, _)
Alone(m, seq) ==
    IF seq = <<>> THEN m ELSE Alone(NetApply(Head(seq), m).m, Tail(seq))

---------------------------------------------------------------------------
(* Add and Mul on the full range of Value = i64.  A Value is its eight
   bytes in two's complement, least significant first; the operands come
   from decimal text as parse_program reads them, and the exact sum and
   product are computed on decimal digits. *)

\* limb i of a little-endian sequence of limbs, 0 beyond its end
Limb(s, i) == IF i <= Len(s) THEN s[i] ELSE 0

\* the limbs, from column i on, of the number whose columns are cols, with
\* `carry` coming in; the carry out of the last column is dropped
RECURSIVE Carried(_, _, _, _)
Carried(cols, base, i, carry) ==
    IF i > Len(cols) THEN <<>>
    ELSE <<(cols[i] + carry) % base>>
         \o Carried(cols, base, i + 1, (cols[i] + carry) \div base)

\* a + b and a - b modulo base^n
LimbAdd(a, b, base, n) ==
    Carried([i \in 1..n |-> Limb(a, i) + Limb(b, i)], base, 1, 0)

LimbSub(a, b, base, n) ==
    Carried([i \in 1..n |-> Limb(a, i) + (base - 1 - Limb(b, i))], base, 1, 1)

\* column k of the schoolbook product: the sum of a[i] * b[k + 1 - i]
RECURSIVE Column(_, _, _, _)
Column(a, b, k, i) ==
    IF i = 0 THEN 0 ELSE Limb(a, i) * Limb(b, k + 1 - i) + Column(a, b, k, i - 1)

\* a * b modulo base^n
LimbMul(a, b, base, n) ==
    Carried([k \in 1..n |-> Column(a, b, k, k)], base, 1, 0)

\* a < b, compared from limb i down
RECURSIVE LimbLess(_, _, _)
LimbLess(a, b, i) ==
    IF i = 0 THEN FALSE
    ELSE IF Limb(a, i) # Limb(b, i) THEN Limb(a, i) < Limb(b, i)
    ELSE LimbLess(a, b, i - 1)

\* the integer written with the decimal digits `digits`, most significant
\* first, negated when neg
Dec(neg, digits) ==
    [neg |-> neg,
     mag |-> [i \in 1..DecLen |->
                 IF i <= Len(digits) THEN digits[Len(digits) + 1 - i] ELSE 0]]

DecIsZero(mag) == \A i \in 1..Len(mag) : mag[i] = 0

\* the exact sum and product of two integers
DecAdd(x, y) ==
    IF x.neg = y.neg
    THEN [neg |-> x.neg, mag |-> LimbAdd(x.mag, y.mag, 10, DecLen)]
    ELSE IF LimbLess(x.mag, y.mag, DecLen)
    THEN [neg |-> y.neg, mag |-> LimbSub(y.mag, x.mag, 10, DecLen)]
    ELSE LET d == LimbSub(x.mag, y.mag, 10, DecLen)
         IN [neg |-> x.neg /\ ~DecIsZero(d), mag |-> d]

DecMul(x, y) ==
    LET p == LimbMul(x.mag, y.mag, 10, DecLen)
    IN [neg |-> (x.neg # y.neg) /\ ~DecIsZero(p), mag |-> p]

\* i64::MAX and i64::MIN
I64Max == Dec(FALSE, <<9,2,2,3,3,7,2,0,3,6,8,5,4,7,7,5,8,0,7>>)
I64Min == Dec(TRUE, <<9,2,2,3,3,7,2,0,3,6,8,5,4,7,7,5,8,0,8>>)

FitsI64(x) ==
    IF x.neg THEN ~LimbLess(I64Min.mag, x.mag, DecLen)
    ELSE ~LimbLess(I64Max.mag, x.mag, DecLen)

\* bytes in a Value
I64Bytes == 8

\* the digits of mag from digit i down, read into acc: acc * 10 + digit;
\* a leading zero leaves acc as it is
RECURSIVE Horner(_, _, _)
Horner(mag, i, acc) ==
    IF i = 0 THEN acc
    ELSE IF DecIsZero(acc) /\ mag[i] = 0 THEN Horner(mag, i - 1, acc)
    ELSE Horner(mag, i - 1,
                LimbAdd(LimbMul(acc, <<10>>, 256, I64Bytes), <<mag[i]>>, 256, I64Bytes))

\* two's complement negation
Negated(b) == LimbAdd([i \in 1..Len(b) |-> 255 - b[i]], <<1>>, 256, Len(b))

\* str::parse::<i64> of the decimal text of an integer that fits
str_parse(x) ==
    LET m == Horner(x.mag, DecLen, [i \in 1..I64Bytes |-> 0])
    IN IF x.neg THEN Negated(m) ELSE m

Negative(b) == b[Len(b)] >= 128

SignExtend(b, n) ==
    [i \in 1..n |-> IF i <= Len(b) THEN b[i] ELSE IF Negative(b) THEN 255 ELSE 0]

\* a + b: the wrapped sum; on overflow a debug build panics and a release
\* build keeps the wrapped sum
i64_add(a, b) ==
    LET sum == LimbAdd(a, b, 256, I64Bytes)
        overflow == Negative(a) = Negative(b) /\ Negative(sum) # Negative(a)
    IN IF overflow
       THEN {Panic("attempt to add with overflow", <<>>), OkSome(sum)}
       ELSE {OkSome(sum)}

\* a product kept in 32 bits
i64_mul_in_32_bits(a, b) ==
    {OkSome(SignExtend(SubSeq(LimbMul(a, b, 256, I64Bytes), 1, 4), I64Bytes))}

\* a * b: the low half of the 128-bit signed product; it overflows when
\* the 128-bit product is not the sign extension of its low half
i64_mul(a, b) ==
    LET wide == LimbMul(SignExtend(a, 2 * I64Bytes), SignExtend(b, 2 * I64Bytes),
                        256, 2 * I64Bytes)
        low == SubSeq(wide, 1, I64Bytes)
        overflow == wide # SignExtend(low, 2 * I64Bytes)
    IN IF overflow
       THEN {Panic("attempt to multiply with overflow", <<>>), OkSome(low)}
       ELSE {OkSome(low)}

\* operands tried: small values, the operands of the examples of day 9,
\* values around the square root of 2^63 and the ends of the range
WideValues ==
    { Dec(FALSE, <<>>),
      Dec(FALSE, <<1>>),
      Dec(TRUE, <<1>>),
      Dec(FALSE, <<7>>),
      Dec(FALSE, <<3,4,9,1,5,1,9,2>>),
      Dec(TRUE, <<3,4,9,1,5,1,9,2>>),
      Dec(FALSE, <<1,1,2,5,8,9,9,9,0,6,8,4,2,6,2,4>>),
      Dec(FALSE, <<4,2,9,4,9,6,7,2,9,6>>),
      Dec(FALSE, <<3,0,3,7,0,0,0,4,9,9>>),
      Dec(FALSE, <<3,0,3,7,0,0,0,5,0,0>>),
      Dec(TRUE, <<3,0,3,7,0,0,0,5,0,0>>),
      Dec(FALSE, <<4,6,1,1,6,8,6,0,1,8,4,2,7,3,8,7,9,0,4>>),
      I64Max,
      I64Min }

WideInit ==
    \E x \in WideValues, y \in WideValues :
        /\ memory = <<>>
        /\ ip = 0
        /\ state = "Running"
        /\ inputs = <<>>
        /\ outputs = <<>>
        /\ relative_base = 0
        /\ last = "new"
        /\ args = [program |-> <<>>, vals |-> <<x, y>>]
        /\ result = OkUnit
        /\ pre = new(<<>>)
        /\ machines = <<>>
        /\ calls = <<>>
        /\ simulator = <<>>

\* the value an Add or a Mul is about to write: rd(p1) + rd(p2), rd(p1) * rd(p2)
WideAdd ==
    /\ last = "new"
    /\ \E r \in i64_add(str_parse(args.vals[1]), str_parse(args.vals[2])) :
           last' = "Add" /\ result' = r
    /\ UNCHANGED <<memory, ip, state, inputs, outputs, relative_base,
                   args, pre, machines, calls, simulator>>

WideMul ==
    /\ last = "new"
    /\ \E r \in i64_mul(str_parse(args.vals[1]), str_parse(args.vals[2])) :
           last' = "Mul" /\ result' = r
    /\ UNCHANGED <<memory, ip, state, inputs, outputs, relative_base,
                   args, pre, machines, calls, simulator>>

WideNext == WideAdd \/ WideMul

SpecWide == WideInit /\ [][WideNext]_vars

\* C27: Add and Mul are exact on i64: when the exact sum or product of the
\* operands fits in a signed 64-bit integer, the value computed is that
\* integer; 34915192 * 34915192 is 1219070632396864 and 1125899906842624
\* is kept as it is.
C27_ExactWithinI64 ==
    last \in {"Add", "Mul"} =>
        LET x == args.vals[1]
            y == args.vals[2]
            exact == IF last = "Add" THEN DecAdd(x, y) ELSE DecMul(x, y)
        IN /\ FitsI64(exact) => result = OkSome(str_parse(exact))
           /\ (last = "Mul" /\ x = Dec(FALSE, <<3,4,9,1,5,1,9,2>>) /\ y = x)
                  => result = OkSome(<<64, 8, 0, 0, 189, 84, 4, 0>>)
           /\ (last = "Add" /\ x = Dec(FALSE, <<1,1,2,5,8,9,9,9,0,6,8,4,2,6,2,4>>)
                 /\ y = Dec(FALSE, <<>>))
                  => result = OkSome(<<0, 0, 0, 0, 0, 0, 4, 0>>)

\* 34915192 was multiplied by itself and gave the 16-digit product
C27_Witness ==
    /\ last = "Mul"
    /\ args.vals = <<Dec(FALSE, <<3,4,9,1,5,1,9,2>>), Dec(FALSE, <<3,4,9,1,5,1,9,2>>)>>
    /\ result = OkSome(str_parse(Dec(FALSE, <<1,2,1,9,0,7,0,6,3,2,3,9,6,8,6,4>>)))
    /\ result.val[1][5] = 189

---------------------------------------------------------------------------
(* Properties of the run loops and the queues *)

\* the caller calling step up to and including the first step that executes
\* an Output instruction
RECURSIVE StepPastFirstOutput(_, _)
StepPastFirstOutput(m, fuel) ==
    IF fuel = 0 THEN Outcome(m, Diverged)
    ELSE LET s == step(m)
         IN IF s.res.kind # "Ok" THEN s
            ELSE IF get_op(m).op = "Output" THEN s
            ELSE StepPastFirstOutput(s.m, fuel - 1)

\* C31: run_until_output returns exactly one value, the oldest of the output
\* queue, and removes it; with a non-empty output queue on entry it executes
\* no instruction, and with an empty one it stops right after the first
\* Output instruction has executed.
C31_RunUntilOutputPopsOldest ==
    last = "run_until_output" =>
        /\ result.kind = "Ok" => result.tag = "Some"
        /\ pre.outputs # <<>> =>
               /\ result = OkSome(Head(pre.outputs))
               /\ Self = [pre EXCEPT !.outputs = Tail(@)]
        /\ (pre.outputs = <<>> /\ result.kind = "Ok") =>
               /\ outputs = <<>>
               /\ StepPastFirstOutput(pre, MaxSteps) =
                      Outcome([Self EXCEPT !.outputs = result.val], OkUnit)
        /\ (pre.outputs = <<>> /\ result.kind # "Ok") =>
               StepPastFirstOutput(pre, MaxSteps) = Outcome(Self, result)

\* run_until_output executed an Input and then the Output that produced the
\* value it returned
C31_Witness ==
    /\ last = "run_until_output"
    /\ pre.outputs = <<>> /\ pre.inputs = <<5>> /\ pre.ip = 0
    /\ result = OkSome(5) /\ ip = 4 /\ outputs = <<>>

\* C32: within step only an Input instruction removes from the input queue,
\* exactly one value from its head, and only an Output instruction appends
\* to the output queue, exactly one value at its tail; no step appends to
\* the input queue or removes from the output queue.
C32_StepQueueEffects ==
    last = "step" =>
        /\ inputs # pre.inputs =>
               /\ StepDecoded("Input")
               /\ pre.inputs # <<>>
               /\ inputs = Tail(pre.inputs)
        /\ outputs # pre.outputs =>
               /\ StepDecoded("Output")
               /\ outputs = Append(pre.outputs, Rd(1))
        /\ (StepDecoded("Input") /\ result = OkUnit) =>
               (pre.inputs # <<>> /\ inputs = Tail(pre.inputs))
        /\ (StepDecoded("Output") /\ result = OkUnit) =>
               outputs = Append(pre.outputs, Rd(1))
        /\ Len(inputs) <= Len(pre.inputs)
        /\ Len(outputs) >= Len(pre.outputs)

\* an Input took the older of two queued values and left the output queue
\* as it was
C32_Witness ==
    /\ last = "step" /\ StepDecoded("Input")
    /\ pre.inputs = <<5, 6>> /\ inputs = <<6>>
    /\ pre.outputs = outputs

\* C33: run_until_input returns success if and only if execution reached an
\* Input instruction with an empty input queue: on every successful return
\* the state is Running, the input queue is empty and the word at ip has
\* opcode 3; when the program executes Halt first it returns the Stopped
\* error.
C33_RunUntilInputSuccess ==
    last = "run_until_input" =>
        /\ result.kind = "Ok" =>
               /\ result = OkUnit
               /\ state = "Running"
               /\ inputs = <<>>
               /\ TruncRem(read(Self, ip), 100) = 3
        /\ (state = "Running" /\ BlockedAtInput(Self) /\ result.kind # "Panic")
               => result = OkUnit
        /\ state = "Stopped" =>
               /\ result = Stopped
               /\ pre.state = "Running" => TruncRem(read(Self, ip - 1), 100) = 99

\* run_until_input consumed the queued value, echoed it, jumped back and
\* suspended on the Input it started from
C33_Witness ==
    /\ last = "run_until_input" /\ result = OkUnit
    /\ pre.inputs = <<5>> /\ inputs = <<>>
    /\ outputs = Append(pre.outputs, 5)
    /\ ip = pre.ip /\ read(Self, ip) = 3

---------------------------------------------------------------------------
(* Feeding a program its input.  machines[1] is a machine that had the
   whole input queued before its first run; the variables hold a machine of
   the same program that is given one value at each suspension, and
   args.vals holds the values it has not been given yet. *)

\* programs fed: those of Programs and two that read two values
FeedPrograms ==
    Programs \cup { <<3, 0, 3, 1, 1, 0, 1, 0, 4, 0, 99>>,
                    <<3, 7, 3, 8, 1007, 7, 6, 9>> }

\* the input sequences: every sequence of at most MaxQueue input values
FeedInputs ==
    UNION {[1..n -> InputValues] : n \in 0..MaxQueue}

FeedInit ==
    \E program \in FeedPrograms, values \in FeedInputs :
        /\ memory = program
        /\ ip = 0
        /\ state = "Running"
        /\ inputs = <<>>
        /\ outputs = <<>>
        /\ relative_base = 0
        /\ last = "new"
        /\ args = [program |-> program, vals |-> values]
        /\ result = OkUnit
        /\ pre = new(program)
        /\ machines = <<extend(new(program), values)>>
        /\ calls = << <<>> >>
        /\ simulator = <<>>

\* the machine with everything queued makes its one run
FeedRunQueued ==
    /\ calls[1] = <<>>
    /\ LET out == run_until_input(machines[1])
       IN /\ out.res.kind # "Diverged"
          /\ machines' = <<out.m>>
          /\ calls' = << <<"run_until_input">> >>
    /\ UNCHANGED <<memory, ip, state, inputs, outputs, relative_base,
                   last, args, result, pre, simulator>>

\* the fed machine runs: first of all, and after every value given to it
FeedRunUntilInput ==
    /\ last \in {"new", "push_input"}
    /\ Returned("run_until_input", args, run_until_input(Self))

\* the caller gives the next value to the machine that has suspended
FeedPushInput ==
    /\ last = "run_until_input"
    /\ result = OkUnit
    /\ args.vals # <<>>
    /\ Returned("push_input", [args EXCEPT !.vals = Tail(@)],
                Outcome(extend(Self, <<Head(args.vals)>>), OkUnit))

FeedNext == FeedRunQueued \/ FeedRunUntilInput \/ FeedPushInput

SpecFeed == FeedInit /\ [][FeedNext]_vars

\* the fed machine will not be run again: its last run did not suspend, or
\* there is nothing left to give it
FeedDone == last = "run_until_input" /\ (result # OkUnit \/ args.vals = <<>>)

\* C34: a machine fed one value at each suspension of run_until_input ends
\* with the outputs and the memory of a machine that had the whole input
\* queued before its first run.
C34_SuspensionIsTransparent ==
    (FeedDone /\ calls[1] # <<>>) =>
        /\ outputs = machines[1].outputs
        /\ memory = machines[1].memory

\* both machines read two values, added them and halted
C34_Witness ==
    /\ FeedDone /\ calls[1] # <<>>
    /\ args.program = <<3, 0, 3, 1, 1, 0, 1, 0, 4, 0, 99>>
    /\ result = Stopped
    /\ outputs = <<11>> /\ machines[1].outputs = <<11>>
    /\ memory[1] = 11 /\ memory[2] = 6

---------------------------------------------------------------------------
(* Properties of the instruction fetch *)

\* C35: every negative instruction word fails decode with InvalidInstruction
\* carrying the word: its remainder by 100 is truncating, so at most 0, and
\* words such as -1 and -99 are not decoded as Halt.
C35_NegativeWordIsInvalid ==
    (last = "step" /\ pre.state = "Running" /\ read(pre, pre.ip) < 0) =>
        LET word == read(pre, pre.ip)
        IN /\ TruncRem(word, 100) <= 0
           /\ ~OpCode_try_from(word).ok
           /\ OpCode_try_from(word).err = InvalidInstruction(word)
           /\ result.tag = "InvalidInstruction" /\ result.val = <<word>>
           /\ state = "Running"
           /\ Self = pre

\* the first word of the program was -99 and the step did not halt
C35_Witness ==
    /\ last = "step" /\ pre.ip = 0 /\ pre.memory[1] = -99
    /\ result.tag = "InvalidInstruction" /\ state = "Running"

\* the last call was a step that executed an instruction that writes to
\* memory: Add, Mul, LessThan, Equals or Input
WritingStep ==
    /\ last = "step" /\ pre.state = "Running"
    /\ PreOp.ok /\ result = OkUnit
    /\ PreOp.op \in {"Add", "Mul", "LessThan", "Equals", "Input"}

\* the address that step wrote and the value it wrote there, both from the
\* machine as it was before the step
WrittenAddr == Target(PreArg(IF PreOp.shape = "Trinary" THEN 3 ELSE 1), pre)

WrittenValue ==
    IF PreOp.shape = "Trinary" THEN Arith(PreOp.op, Rd(1), Rd(2))
    ELSE Head(pre.inputs)

\* C36: an instruction that overwrites one of its own words or the word of
\* the next instruction still takes its operands and its width from the
\* words as they were before its write, and the next fetch decodes the word
\* it wrote; 1002,4,3,4,33 run to its halt leaves 1002,4,3,4,99.
C36_SelfModificationOrder ==
    /\ (WritingStep
          /\ WrittenAddr \in pre.ip..(pre.ip + InstructionWidth[PreOp.op])) =>
           /\ ip = pre.ip + InstructionWidth[PreOp.op]
           /\ read(Self, WrittenAddr) = WrittenValue
           /\ get_op(Self) =
                  OpCode_try_from(IF WrittenAddr = ip THEN WrittenValue
                                  ELSE read(pre, ip))
    /\ (last = "step" /\ pre = new(<<1002, 4, 3, 4, 33>>)) =>
           /\ memory = <<1002, 4, 3, 4, 99>>
           /\ ip = 4
           /\ step(Self) = Outcome([Self EXCEPT !.state = "Stopped", !.ip = 5], OkUnit)
    /\ (last = "run_until_stopped" /\ pre = new(<<1002, 4, 3, 4, 33>>)) =>
           /\ result = OkUnit
           /\ state = "Stopped"
           /\ memory = <<1002, 4, 3, 4, 99>>

\* an Input stored the value it read over its own opcode word and still
\* advanced by 2
C36_Witness ==
    /\ WritingStep /\ PreOp.op = "Input"
    /\ WrittenAddr = pre.ip
    /\ read(pre, pre.ip) # Head(pre.inputs)
    /\ read(Self, pre.ip) = Head(pre.inputs)
    /\ ip = pre.ip + 2

\* C37: a step taken with ip outside the loaded memory, past its end or
\* below zero, fetches the word 0 and fails with the error
\* InvalidInstruction(0), executing nothing and leaving the machine Running.
C37_OutsideFetchIsInvalidInstruction ==
    (last = "step" /\ pre.state = "Running"
       /\ (pre.ip < 0 \/ pre.ip >= Len(pre.memory))) =>
        /\ read(pre, pre.ip) = 0
        /\ result = InvalidInstruction(0)
        /\ Self = pre

\* C38: write(A, v) with A >= 0 changes only cell A among the cells that
\* existed before the call: every other address below the old length keeps
\* its value, the new length is the larger of the old length and A + 1, and
\* ip, relative base, state and both queues are unchanged.
C38_WriteFrame ==
    (last = "write" /\ args.vals[1] >= 0) =>
        LET A == args.vals[1]
        IN /\ result = OkUnit
           /\ \A a \in 0..(Len(pre.memory) - 1) :
                  a # A => memory[a + 1] = pre.memory[a + 1]
           /\ Len(memory) = IF Len(pre.memory) > A + 1 THEN Len(pre.memory) ELSE A + 1
           /\ ip = pre.ip
           /\ relative_base = pre.relative_base
           /\ state = pre.state
           /\ inputs = pre.inputs
           /\ outputs = pre.outputs

\* the caller wrote past the end of a five-word memory whose machine had
\* moved on, changed its base and held values in both queues
C38_Witness ==
    /\ last = "write" /\ args.vals[1] = MaxAddr
    /\ Len(pre.memory) = 5 /\ Len(memory) = MaxAddr + 1
    /\ pre.ip # 0 /\ pre.relative_base # 0
    /\ pre.inputs # <<>> /\ pre.outputs # <<>>

---------------------------------------------------------------------------
(* NetworkSimulator::run_with_nat.  machines is the simulator's
   Vec<Machine>; simulator holds its nat_package and the locals of
   run_with_nat: prev_nat_package, any_activity and machine_ix, the index of
   the machine the for loop processes next.  An Option is <<>> for None and
   <<v>> for Some(v).  simulator.running tells whether process_machine is
   inside its run_until_input, whose loop takes one turn per action.
   result is Pending until run_with_nat returns, pre is the Vec as it was
   before the last call, and calls[i] lists, for each process_machine of
   machine i - 1 that returned, the output words it forwarded. *)

\* a controller that sends every packet it receives to address 255
NicReport ==
    <<3, 24, 3, 25, 1008, 25, -1, 26, 1005, 26, 2, 3, 27,
      104, 255, 4, 25, 4, 27, 1105, 1, 2, 0, 0, 0, 0, 0, 0>>

\* a controller that sends every packet it receives to the next address
NicNext ==
    <<3, 28, 1001, 28, 1, 28, 3, 29, 1008, 29, -1, 30, 1005, 30, 6, 3, 31,
      4, 28, 4, 29, 4, 31, 1105, 1, 6, 0, 0, 0, 0, 0, 0>>

\* a controller that sends the packet (7, 2) to dest at its first input and
\* then sends every packet it receives to address 255
NicStart(dest) ==
    <<3, 30, 3, 31, 104, dest, 104, 7, 104, 2,
      3, 31, 1008, 31, -1, 32, 1005, 32, 10, 3, 33,
      104, 255, 4, 31, 4, 33, 1105, 1, 10, 0, 0, 0, 0>>

\* a controller that sends every packet (x, y) it receives to address 255
\* with y one less, 0 staying 0
NicCountdown ==
    <<3, 36, 3, 37, 1008, 37, -1, 38, 1005, 38, 2, 3, 39,
      107, 0, 39, 38, 1002, 38, -1, 38, 1, 39, 38, 39,
      104, 255, 4, 37, 4, 39, 1105, 1, 2, 0, 0, 0, 0, 0, 0>>

\* a controller that halts at its first input
NicHalt == <<3, 5, 3, 5, 99, 0>>

\* a controller that reads and sends nothing
NicSilent == <<3, 7, 3, 7, 1105, 1, 2, 0>>

NatPrograms ==
    {NicReport, NicNext, NicStart(255), NicStart(0), NicCountdown, NicHalt, NicSilent}

\* send_package on the simulator sim = [machines, nat_package]
send_package(sim, dest, x, y) ==
    IF dest = 255 THEN [sim EXCEPT !.nat_package = << <<x, y>> >>]
    ELSE IF dest >= 0 /\ dest < Len(sim.machines)
    THEN [sim EXCEPT !.machines[dest + 1].inputs = @ \o <<x, y>>]
    ELSE sim

\* the for loop of process_machine over the drained outputs, three at a time
RECURSIVE send_packages(_, _)
send_packages(sim, outs) ==
    IF outs = <<>> THEN sim
    ELSE send_packages(send_package(sim, outs[1], outs[2], outs[3]),
                       SubSeq(outs, 4, Len(outs)))

\* a forward that sends the packets and reports that nothing was forwarded
forward_reports_idle(sim, machine_ix) ==
    LET machine == sim.machines[machine_ix + 1]
        n == (Len(machine.outputs) \div 3) * 3
        drained == SubSeq(machine.outputs, 1, n)
        left == [machine EXCEPT !.outputs = SubSeq(@, n + 1, Len(@))]
    IN [sim |-> send_packages([sim EXCEPT !.machines[machine_ix + 1] = left], drained),
        res |-> OkSome(FALSE), sent |-> drained]

\* process_machine after its run_until_input has returned Ok: the simulator
\* it leaves, what it returns and the output words it forwarded
forward(sim, machine_ix) ==
    LET machine == sim.machines[machine_ix + 1]
        n == (Len(machine.outputs) \div 3) * 3
        drained == SubSeq(machine.outputs, 1, n)
        left == [machine EXCEPT !.outputs = SubSeq(@, n + 1, Len(@))]
    IN IF Len(machine.outputs) < 3
       THEN [sim |-> sim, res |-> OkSome(FALSE), sent |-> <<>>]
       ELSE [sim |-> send_packages([sim EXCEPT !.machines[machine_ix + 1] = left],
                                   drained),
             res |-> OkSome(TRUE), sent |-> drained]

\* the machine NetworkSimulator::new builds for an address
NatMachine(program, address) ==
    run_until_input(extend(new(program), <<address>>)).m

NatInit ==
    \E programs \in [1..NetSize -> NatPrograms] :
        /\ machines = [i \in 1..NetSize |-> NatMachine(programs[i], i - 1)]
        /\ simulator = [nat_package |-> <<>>, prev_nat_package |-> <<>>,
                        any_activity |-> FALSE, machine_ix |-> 0,
                        running |-> FALSE]
        /\ calls = [i \in 1..NetSize |-> <<>>]
        /\ last = "new"
        /\ args = NoArgs
        /\ result = Pending
        /\ pre = <<>>
        /\ memory = <<>>
        /\ ip = 0
        /\ state = "Running"
        /\ inputs = <<>>
        /\ outputs = <<>>
        /\ relative_base = 0

\* the for loop calls process_machine, which gives a machine with an empty
\* input queue the value -1 and calls run_until_input
NatProcessMachine ==
    /\ result = Pending
    /\ ~simulator.running
    /\ simulator.machine_ix < NetSize
    /\ LET ix == simulator.machine_ix
       IN /\ machines' = [machines EXCEPT ![ix + 1] =
                             IF @.inputs = <<>> THEN extend(@, <<-1>>) ELSE @]
          /\ args' = [program |-> <<>>, vals |-> <<ix>>]
    /\ simulator' = [simulator EXCEPT !.running = TRUE]
    /\ last' = "process_machine"
    /\ pre' = machines
    /\ UNCHANGED <<memory, ip, state, inputs, outputs, relative_base, result, calls>>

\* one turn of the loop of run_until_input: a step that succeeds keeps the
\* loop going, a failed one ends run_with_nat with its error, and EmptyInput
\* returns to process_machine, which forwards the outputs and returns to
\* the for loop: any_activity = process_machine(ix)? || any_activity
NatRunIteration ==
    /\ result = Pending
    /\ simulator.running
    /\ LET ix == simulator.machine_ix
           s == step(machines[ix + 1])
           out == forward([machines |-> machines,
                           nat_package |-> simulator.nat_package], ix)
       IN CASE s.res.kind = "Ok" ->
                 /\ machines' = [machines EXCEPT ![ix + 1] = s.m]
                 /\ UNCHANGED <<simulator, result, calls>>
            [] s.res = EmptyInput ->
                 /\ machines' = out.sim.machines
                 /\ simulator' = [simulator EXCEPT
                                      !.nat_package = out.sim.nat_package,
                                      !.any_activity = out.res.val[1] \/ @,
                                      !.machine_ix = @ + 1,
                                      !.running = FALSE]
                 /\ calls' = [calls EXCEPT ![ix + 1] = Append(@, out.sent)]
                 /\ UNCHANGED result
            [] OTHER ->
                 /\ result' = s.res
                 /\ UNCHANGED <<machines, simulator, calls>>
    /\ last' = "run_until_input"
    /\ pre' = machines
    /\ UNCHANGED <<memory, ip, state, inputs, outputs, relative_base, args>>

\* the for loop ended after some activity: the loop starts its next turn
NatNextRound ==
    /\ result = Pending
    /\ simulator.machine_ix = NetSize
    /\ simulator.any_activity
    /\ simulator' = [simulator EXCEPT !.any_activity = FALSE, !.machine_ix = 0]
    /\ last' = "loop"
    /\ UNCHANGED <<memory, ip, state, inputs, outputs, relative_base,
                   args, result, pre, machines, calls>>

\* no activity and no stored packet: Err(RuntimeError::NoNatPackage)
NatNoPackage ==
    /\ result = Pending
    /\ simulator.machine_ix = NetSize
    /\ ~simulator.any_activity
    /\ simulator.nat_package = <<>>
    /\ result' = Err("NoNatPackage", <<>>)
    /\ last' = "run_with_nat"
    /\ UNCHANGED <<memory, ip, state, inputs, outputs, relative_base,
                   args, pre, machines, calls, simulator>>

\* no activity and the stored packet is the one sent before: it is returned
NatReturn ==
    /\ result = Pending
    /\ simulator.machine_ix = NetSize
    /\ ~simulator.any_activity
    /\ simulator.nat_package # <<>>
    /\ simulator.prev_nat_package = simulator.nat_package
    /\ result' = OkSome(simulator.nat_package)
    /\ last' = "run_with_nat"
    /\ UNCHANGED <<memory, ip, state, inputs, outputs, relative_base,
                   args, pre, machines, calls, simulator>>

\* no activity and a new stored packet: it is remembered and sent to
\* address 0, and the loop starts its next turn
NatSend ==
    /\ result = Pending
    /\ simulator.machine_ix = NetSize
    /\ ~simulator.any_activity
    /\ simulator.nat_package # <<>>
    /\ simulator.prev_nat_package # simulator.nat_package
    /\ LET packet == simulator.nat_package[1]
           sent == send_package([machines |-> machines,
                                 nat_package |-> simulator.nat_package],
                                0, packet[1], packet[2])
       IN /\ machines' = sent.machines
          /\ simulator' = [simulator EXCEPT !.nat_package = sent.nat_package,
                                            !.prev_nat_package = simulator.nat_package,
                                            !.any_activity = FALSE,
                                            !.machine_ix = 0]
          /\ args' = [program |-> <<>>, vals |-> <<0, packet[1], packet[2]>>]
    /\ last' = "send_package"
    /\ pre' = machines
    /\ UNCHANGED <<memory, ip, state, inputs, outputs, relative_base, result, calls>>

NatNext ==
    \/ NatProcessMachine
    \/ NatRunIteration
    \/ NatNextRound
    \/ NatNoPackage
    \/ NatReturn
    \/ NatSend

SpecNat == NatInit /\ [][NatNext]_vars

\* C39: the stored packet is sent to machine 0 only after a complete round
\* over all machines in which no machine forwarded a packet, and when it is
\* sent every machine's input queue is empty and every machine is suspended
\* at an Input instruction.
C39_NatSendsOnlyWhenIdle ==
    last = "send_package" =>
        /\ \A i \in 1..NetSize :
               /\ Len(calls[i]) = Len(calls[1])
               /\ calls[i] # <<>>
               /\ calls[i][Len(calls[i])] = <<>>
               /\ pre[i].inputs = <<>>
               /\ pre[i].state = "Running"
               /\ BlockedAtInput(pre[i])
               /\ step(pre[i]) = Outcome(pre[i], EmptyInput)
        /\ machines = [pre EXCEPT ![1].inputs = SubSeq(args.vals, 2, 3)]

\* the packet was sent a second time, after machine 0 had answered the
\* first one with a different packet
C39_Witness ==
    /\ last = "send_package"
    /\ Len(calls[1]) >= 4
    /\ simulator.prev_nat_package = << <<7, 1>> >>
    /\ machines[1].inputs = <<7, 1>>
    /\ \E k \in 1..Len(calls[1]) : calls[1][k] = <<255, 7, 1>>

=============================================================================
